---- MODULE Spec2Model ----
(***************************************************************************)
(* Model of the Wind Load Calculator (src/app.py).                         *)
(*                                                                         *)
(* Numbers are exact fixed-point integers:                                 *)
(*   lengths (height_ft, value)  in hundredths of a foot  (format "%.2f")  *)
(*   table coefficients          in hundredths            (0.57 -> 57)     *)
(*   Kz as returned by get_kz    in units of 1/KzScale                     *)
(*   V                           in tenths of a mph       (format "%.1f")  *)
(* Python floats are modelled by these exact values; the products that     *)
(* exceed the machine integer range are carried as limb sequences.         *)
(***************************************************************************)
EXTENDS Integers, Sequences, FiniteSets, TLC

VARIABLES
    kz_pc, kz_height_ft, kz_exposure, kz_ret,     \* one call of get_kz
    ft_pc, value, ft_ret,                         \* one call of ft_in
    icc_pc, lines, line_i, current_state, buffer, \* load_icc_table_pdfplumber
    states_data, df,
    height, V, structure_selection, exposure,     \* widgets of the page
    Kd, Kz, Kzt, Ke, q                            \* section 5 of the script

kz_vars  == <<kz_pc, kz_height_ft, kz_exposure, kz_ret>>
ft_vars  == <<ft_pc, value, ft_ret>>
icc_vars == <<icc_pc, lines, line_i, current_state, buffer, states_data, df>>
app_vars == <<height, V, structure_selection, exposure, Kd, Kz, Kzt, Ke, q>>
vars     == <<kz_vars, ft_vars, icc_vars, app_vars>>

----------------------------------------------------------------------------
(* Bounds *)

MaxHeightFt == 510        \* get_kz is called with heights 0 .. MaxHeightFt ft
MaxDimFt    == 80         \* ft_in is called with values 0 .. MaxDimFt.99 ft
MaxLines    == 3          \* lines of text extracted from the PDF
MaxRoofIdx  == 9          \* page: Mean Roof Height 0, 7.5, .. 7.5 * MaxRoofIdx ft
MaxVIdx     == 12         \* page: V 0, 11.5, .. 11.5 * MaxVIdx mph

----------------------------------------------------------------------------
(* Units *)

Ft(n) == n * 100                       \* whole feet -> hundredths of a foot

Min(a, b) == IF a <= b THEN a ELSE b
Max(a, b) == IF a >= b THEN a ELSE b

----------------------------------------------------------------------------
(* get_kz : Table 26.10-1 lookup with linear interpolation                 *)

exposure_options == <<"B", "C", "D">>

table ==
    [e \in {"B", "C", "D"} |->
        CASE e = "B" ->
               (15 :> 57 @@ 20 :> 62 @@ 25 :> 66 @@ 30 :> 70 @@ 40 :> 76
             @@ 50 :> 81 @@ 60 :> 85 @@ 70 :> 89 @@ 80 :> 93 @@ 90 :> 96
             @@ 100 :> 99 @@ 120 :> 104 @@ 140 :> 109 @@ 160 :> 113
             @@ 200 :> 120 @@ 250 :> 128 @@ 300 :> 135 @@ 350 :> 141
             @@ 400 :> 147 @@ 450 :> 152 @@ 500 :> 156)
          [] e = "C" ->
               (15 :> 85 @@ 20 :> 90 @@ 25 :> 94 @@ 30 :> 98 @@ 40 :> 104
             @@ 50 :> 109 @@ 60 :> 113 @@ 70 :> 117 @@ 80 :> 121 @@ 90 :> 124
             @@ 100 :> 126 @@ 120 :> 131 @@ 140 :> 136 @@ 160 :> 139
             @@ 200 :> 146 @@ 250 :> 153 @@ 300 :> 159 @@ 350 :> 164
             @@ 400 :> 169 @@ 450 :> 173 @@ 500 :> 177)
          [] e = "D" ->
               (15 :> 103 @@ 20 :> 108 @@ 25 :> 112 @@ 30 :> 116 @@ 40 :> 122
             @@ 50 :> 127 @@ 60 :> 131 @@ 70 :> 134 @@ 80 :> 138 @@ 90 :> 140
             @@ 100 :> 143 @@ 120 :> 148 @@ 140 :> 152 @@ 160 :> 155
             @@ 200 :> 161 @@ 250 :> 168 @@ 300 :> 173 @@ 350 :> 178
             @@ 400 :> 182 @@ 450 :> 186 @@ 500 :> 189)]

\* Kz = kz / KzScale: coefficient hundredths times the common denominator
\* of the interval widths (5, 10, 20, 40 and 50 ft divide 200 ft).
KzDen   == Ft(200)
KzScale == 100 * KzDen

RECURSIVE sorted(_)
sorted(S) ==
    IF S = {} THEN <<>>
    ELSE LET m == CHOOSE x \in S : \A y \in S : x <= y
         IN  <<m>> \o sorted(S \ {m})

\* heights = sorted(table[exposure].keys())
heights == [e \in DOMAIN table |-> sorted(DOMAIN table[e])]

\* The category's table replaced by the table of the default category.
TableOf_blend(expo) == table["C"]

\* table[exposure]; a category that is not a key raises KeyError
TableOf(expo) == table[expo]

\* The lower clamp left out.
Clamp_upper_only(height_ft) == Min(height_ft, Ft(500))

\* h = min(max(height_ft, 15), 500)
Clamp(height_ft) == Min(Max(height_ft, Ft(15)), Ft(500))

\* Interpolation started from the upper breakpoint's value.
Interp_from_k2(h, h1, h2, k1, k2) ==
    k2 * KzDen + (k2 - k1) * ((h - Ft(h1)) * (KzDen \div (Ft(h2) - Ft(h1))))

\* The increment subtracted instead of added.
Interp_minus(h, h1, h2, k1, k2) ==
    k1 * KzDen - (k2 - k1) * ((h - Ft(h1)) * (KzDen \div (Ft(h2) - Ft(h1))))

\* k1 + (k2 - k1) * ((h - h1) / (h2 - h1)), in units of 1/KzScale
Interp(h, h1, h2, k1, k2) ==
    k1 * KzDen + (k2 - k1) * ((h - Ft(h1)) * (KzDen \div (Ft(h2) - Ft(h1))))

\* for i in range(len(heights)-1): ... ; return table[exposure][500]
RECURSIVE KzLoop(_, _, _)
KzLoop(i, h, expo) ==
    LET hs == heights[expo]
    IN  IF i > Len(hs) - 1
        THEN TableOf(expo)[500] * KzDen
        ELSE LET h1 == hs[i]
                 h2 == hs[i + 1]
             IN  IF Ft(h1) <= h /\ h <= Ft(h2)
                 THEN Interp(h, h1, h2, TableOf(expo)[h1], TableOf(expo)[h2])
                 ELSE KzLoop(i + 1, h, expo)

NoRet == [raised |-> "pending", ret |-> 0]

\* An unknown category silently served from the default category C.
get_kz_default_C(height_ft, expo) ==
    LET e == IF expo \in DOMAIN table THEN expo ELSE "C"
    IN  [raised |-> "", ret |-> KzLoop(1, Clamp(height_ft), e)]

get_kz(height_ft, expo) ==
    IF expo \notin DOMAIN table
    THEN [raised |-> "KeyError", ret |-> 0]
    ELSE [raised |-> "", ret |-> KzLoop(1, Clamp(height_ft), expo)]

----------------------------------------------------------------------------
(* Specification SpecKz: one call of get_kz on bounded arguments           *)

HeightArgs   == {Ft(f) + c : f \in 0..MaxHeightFt, c \in {0, 25, 50, 75}}
ExposureArgs == {"B", "C", "D", "A", ""}

KzIdle ==
    /\ kz_pc = "idle"
    /\ kz_height_ft = 0
    /\ kz_exposure = ""
    /\ kz_ret = NoRet

KzCalled ==
    /\ kz_pc = "call"
    /\ kz_height_ft \in HeightArgs
    /\ kz_exposure \in ExposureArgs
    /\ kz_ret = NoRet

GetKzCall ==
    /\ kz_pc = "call"
    /\ kz_ret' = get_kz(kz_height_ft, kz_exposure)
    /\ kz_pc' = "done"
    /\ UNCHANGED <<kz_height_ft, kz_exposure, ft_vars, icc_vars, app_vars>>

----------------------------------------------------------------------------
(* ft_in : feet-inches label of a dimension                                *)

\* round(x) of Python 3 for x = n / d >= 0: to nearest, ties to even
round(n, d) ==
    LET fl == n \div d
        r  == n % d
    IN  IF 2 * r < d THEN fl
        ELSE IF 2 * r > d THEN fl + 1
        ELSE IF fl % 2 = 0 THEN fl ELSE fl + 1

\* ft = int(value); inches = round((value - ft) * 12)
ft_in(v) ==
    LET ft     == v \div Ft(1)
        inches == round((v - Ft(ft)) * 12, Ft(1))
    IN  [ft |-> ft, inches |-> inches]

NoLabel == [ft |-> -1, inches |-> -1]

DimArgs == 0..(Ft(MaxDimFt) + 99)

FtIdle ==
    /\ ft_pc = "idle"
    /\ value = 0
    /\ ft_ret = NoLabel

FtCalled ==
    /\ ft_pc = "call"
    /\ value \in DimArgs
    /\ ft_ret = NoLabel

FtInCall ==
    /\ ft_pc = "call"
    /\ ft_ret' = ft_in(value)
    /\ ft_pc' = "done"
    /\ UNCHANGED <<value, kz_vars, icc_vars, app_vars>>

----------------------------------------------------------------------------
(* load_icc_table_pdfplumber : rows of [State, Code Info] from text lines. *)
(* A string is the sequence of its characters; None and "" are both <<>>   *)
(* (the code only tests current_state for truth).                          *)

states ==
    << <<"A", "l", "a", "b", "a", "m", "a">>,
       <<"A", "l", "a", "s", "k", "a">>,
       <<"A", "r", "i", "z", "o", "n", "a">>,
       <<"A", "r", "k", "a", "n", "s", "a", "s">>,
       <<"C", "a", "l", "i", "f", "o", "r", "n", "i", "a">>,
       <<"C", "o", "l", "o", "r", "a", "d", "o">>,
       <<"C", "o", "n", "n", "e", "c", "t", "i", "c", "u", "t">>,
       <<"D", "e", "l", "a", "w", "a", "r", "e">>,
       <<"F", "l", "o", "r", "i", "d", "a">>,
       <<"G", "e", "o", "r", "g", "i", "a">>,
       <<"H", "a", "w", "a", "i", "i">>,
       <<"I", "d", "a", "h", "o">>,
       <<"I", "l", "l", "i", "n", "o", "i", "s">>,
       <<"I", "n", "d", "i", "a", "n", "a">>,
       <<"I", "o", "w", "a">>,
       <<"K", "a", "n", "s", "a", "s">>,
       <<"K", "e", "n", "t", "u", "c", "k", "y">>,
       <<"L", "o", "u", "i", "s", "i", "a", "n", "a">>,
       <<"M", "a", "i", "n", "e">>,
       <<"M", "a", "r", "y", "l", "a", "n", "d">>,
       <<"M", "a", "s", "s", "a", "c", "h", "u", "s", "e", "t", "t", "s">>,
       <<"M", "i", "c", "h", "i", "g", "a", "n">>,
       <<"M", "i", "n", "n", "e", "s", "o", "t", "a">>,
       <<"M", "i", "s", "s", "i", "s", "s", "i", "p", "p", "i">>,
       <<"M", "i", "s", "s", "o", "u", "r", "i">>,
       <<"M", "o", "n", "t", "a", "n", "a">>,
       <<"N", "e", "b", "r", "a", "s", "k", "a">>,
       <<"N", "e", "v", "a", "d", "a">>,
       <<"N", "e", "w", " ", "H", "a", "m", "p", "s", "h", "i", "r", "e">>,
       <<"N", "e", "w", " ", "J", "e", "r", "s", "e", "y">>,
       <<"N", "e", "w", " ", "M", "e", "x", "i", "c", "o">>,
       <<"N", "e", "w", " ", "Y", "o", "r", "k">>,
       <<"N", "o", "r", "t", "h", " ", "C", "a", "r", "o", "l", "i", "n", "a">>,
       <<"N", "o", "r", "t", "h", " ", "D", "a", "k", "o", "t", "a">>,
       <<"O", "h", "i", "o">>,
       <<"O", "k", "l", "a", "h", "o", "m", "a">>,
       <<"O", "r", "e", "g", "o", "n">>,
       <<"P", "e", "n", "n", "s", "y", "l", "v", "a", "n", "i", "a">>,
       <<"R", "h", "o", "d", "e", " ", "I", "s", "l", "a", "n", "d">>,
       <<"S", "o", "u", "t", "h", " ", "C", "a", "r", "o", "l", "i", "n", "a">>,
       <<"S", "o", "u", "t", "h", " ", "D", "a", "k", "o", "t", "a">>,
       <<"T", "e", "n", "n", "e", "s", "s", "e", "e">>,
       <<"T", "e", "x", "a", "s">>,
       <<"U", "t", "a", "h">>,
       <<"V", "e", "r", "m", "o", "n", "t">>,
       <<"V", "i", "r", "g", "i", "n", "i", "a">>,
       <<"W", "a", "s", "h", "i", "n", "g", "t", "o", "n">>,
       <<"W", "e", "s", "t", " ", "V", "i", "r", "g", "i", "n", "i", "a">>,
       <<"W", "i", "s", "c", "o", "n", "s", "i", "n">>,
       <<"W", "y", "o", "m", "i", "n", "g">> >>

StateNames == {states[i] : i \in 1..Len(states)}

\* line.startswith(s)
startswith(line, s) == Len(line) >= Len(s) /\ SubSeq(line, 1, Len(s)) = s

\* s.split(" ")[0]
RECURSIVE first_word(_)
first_word(s) ==
    IF s = <<>> \/ Head(s) = " " THEN <<>>
    ELSE <<Head(s)>> \o first_word(Tail(s))

\* s.strip()
RECURSIVE lstrip(_)
lstrip(s) == IF s # <<>> /\ Head(s) = " " THEN lstrip(Tail(s)) ELSE s
RECURSIVE rstrip(_)
rstrip(s) ==
    IF s # <<>> /\ s[Len(s)] = " " THEN rstrip(SubSeq(s, 1, Len(s) - 1)) ELSE s
strip(s) == rstrip(lstrip(s))

\* lines of the extracted text the model feeds to the loop
\* "Texas 15", "New York 20", "New Jersey 21", "West Virginia 18",
\* "Virginia 15", "Ohio", "IBC 18", ""
LineSamples ==
    { <<"T", "e", "x", "a", "s", " ", "1", "5">>,
      <<"N", "e", "w", " ", "Y", "o", "r", "k", " ", "2", "0">>,
      <<"N", "e", "w", " ", "J", "e", "r", "s", "e", "y", " ", "2", "1">>,
      <<"W", "e", "s", "t", " ", "V", "i", "r", "g", "i", "n", "i", "a", " ", "1", "8">>,
      <<"V", "i", "r", "g", "i", "n", "i", "a", " ", "1", "5">>,
      <<"O", "h", "i", "o">>,
      <<"I", "B", "C", " ", "1", "8">>,
      <<>> }

RECURSIVE SeqsUpTo(_, _)
SeqsUpTo(S, n) ==
    IF n = 0 THEN {<<>>}
    ELSE LET prev == SeqsUpTo(S, n - 1)
         IN  prev \cup {Append(p, x) : p \in {t \in prev : Len(t) = n - 1}, x \in S}

IccIdle ==
    /\ icc_pc = "idle"
    /\ lines = <<>>
    /\ line_i = 1
    /\ current_state = <<>>
    /\ buffer = <<>>
    /\ states_data = <<>>
    /\ df = <<>>

\* states_data = []; lines = text.split("\n"); current_state = None; buffer = ""
IccStarted ==
    /\ icc_pc = "loop"
    /\ lines \in SeqsUpTo(LineSamples, MaxLines)
    /\ line_i = 1
    /\ current_state = <<>>
    /\ buffer = <<>>
    /\ states_data = <<>>
    /\ df = <<>>

\* if current_state and buffer.strip(): states_data.append([...])
Flushed ==
    IF current_state # <<>> /\ strip(buffer) # <<>>
    THEN Append(states_data, <<current_state, strip(buffer)>>)
    ELSE states_data

\* loop body, line starts with a state name
StateLine ==
    /\ icc_pc = "loop"
    /\ line_i <= Len(lines)
    /\ \E k \in 1..Len(states) : startswith(lines[line_i], states[k])
    /\ states_data' = Flushed
    /\ current_state' = first_word(lines[line_i])
    /\ buffer' = strip(SubSeq(lines[line_i], Len(current_state') + 1,
                              Len(lines[line_i])))
    /\ line_i' = line_i + 1
    /\ UNCHANGED <<icc_pc, lines, df, kz_vars, ft_vars, app_vars>>

\* loop body, any other line
OtherLine ==
    /\ icc_pc = "loop"
    /\ line_i <= Len(lines)
    /\ ~ \E k \in 1..Len(states) : startswith(lines[line_i], states[k])
    /\ buffer' = buffer \o <<" ">> \o strip(lines[line_i])
    /\ line_i' = line_i + 1
    /\ UNCHANGED <<icc_pc, lines, current_state, states_data, df, kz_vars, ft_vars, app_vars>>

\* after the loop: last entry, DataFrame, return
LoadReturn ==
    /\ icc_pc = "loop"
    /\ line_i > Len(lines)
    /\ states_data' = Flushed
    /\ df' = states_data'
    /\ icc_pc' = "done"
    /\ UNCHANGED <<lines, line_i, current_state, buffer, kz_vars, ft_vars, app_vars>>

\* state_list = sorted(df_codes["State"].unique()), as a set
state_list == {df[i][1] : i \in 1..Len(df)}

----------------------------------------------------------------------------
(* Exact non-negative numbers beyond the machine range: little-endian     *)
(* sequences of limbs in base 10^4 without leading zero limbs; 0 is <<>>.  *)

BigBase == 10 ^ 4

RECURSIVE Big(_)
Big(n) == IF n = 0 THEN <<>> ELSE <<n % BigBase>> \o Big(n \div BigBase)

RECURSIVE BigAddC(_, _, _)
BigAddC(a, b, c) ==
    IF a = <<>> /\ b = <<>> THEN Big(c)
    ELSE LET x == IF a = <<>> THEN 0 ELSE Head(a)
             y == IF b = <<>> THEN 0 ELSE Head(b)
             t == x + y + c
         IN  <<t % BigBase>>
               \o BigAddC(IF a = <<>> THEN a ELSE Tail(a),
                          IF b = <<>> THEN b ELSE Tail(b), t \div BigBase)

BigAdd(a, b) == BigAddC(a, b, 0)

RECURSIVE BigMulLimbC(_, _, _)
BigMulLimbC(a, d, c) ==
    IF a = <<>> THEN Big(c)
    ELSE LET t == Head(a) * d + c
         IN  <<t % BigBase>> \o BigMulLimbC(Tail(a), d, t \div BigBase)

BigMulLimb(a, d) == IF d = 0 THEN <<>> ELSE BigMulLimbC(a, d, 0)

BigShift(a) == IF a = <<>> THEN <<>> ELSE <<0>> \o a

RECURSIVE BigMul(_, _)
BigMul(a, b) ==
    IF a = <<>> \/ b = <<>> THEN <<>>
    ELSE BigAdd(BigMulLimb(a, Head(b)), BigShift(BigMul(a, Tail(b))))

RECURSIVE BigLess(_, _)
BigLess(a, b) ==
    IF Len(a) # Len(b) THEN Len(a) < Len(b)
    ELSE IF a = <<>> THEN FALSE
    ELSE IF a[Len(a)] # b[Len(b)] THEN a[Len(a)] < b[Len(b)]
    ELSE BigLess(SubSeq(a, 1, Len(a) - 1), SubSeq(b, 1, Len(b) - 1))

BigLeq(a, b) == a = b \/ BigLess(a, b)

----------------------------------------------------------------------------
(* Section 5 of the script: Kd, Kz and the velocity pressure q.            *)
(* Streamlit runs the script again on every change of a widget.            *)

\* Kd of each structure type, in hundredths
structure_types ==
    (  "Main Wind Force Resisting System (Buildings)" :> 85
    @@ "Components and Cladding" :> 85
    @@ "Arched Roofs" :> 85
    @@ "Circular Domes" :> 100
    @@ "Chimneys / Tanks (Square)" :> 90
    @@ "Chimneys / Tanks (Hexagonal)" :> 95
    @@ "Chimneys / Tanks (Octagonal)" :> 100
    @@ "Chimneys / Tanks (Round)" :> 100
    @@ "Solid Freestanding Walls or Signs" :> 85
    @@ "Open Signs / Single-Plane Frames" :> 85
    @@ "Trussed Tower (Triangular / Rectangular)" :> 85
    @@ "Trussed Tower (Other Cross Sections)" :> 95 )

\* Kzt = 1.0 and Ke = 1.0, in hundredths
KztDefault == 100

Ke_reduced == 100 - 10
KeDefault == 100

\* 0.00256, in units of 10^-5, with two digits transposed
q_coeff_typo == 200 + 65
q_coeff == 256

\* V ** 2 written as V
V_pow_1(v) == v
V_pow_2(v) == v * v

\* q = 0.00256 * Kz * Kzt * Kd * Ke * (V ** 2), in units of 1/QScale psf
q_of(kz, kzt, kd, ke, v) ==
    BigMul(BigMul(BigMul(BigMul(BigMul(Big(q_coeff), Big(kz)), Big(kzt)),
                         Big(kd)), Big(ke)), Big(V_pow_2(v)))

\* one hundredth of a psf in the unit of q:
\* 10^5 (0.00256) * KzScale * 100 (Kzt) * 100 (Kd) * 100 (Ke) * 100 (V ** 2) / 100
QCent == BigMul(BigMul(Big(10 ^ 5), Big(KzScale)), Big(100 * 100 * 100))

RoofHeights == {Ft(15 * m) \div 2 : m \in 0..MaxRoofIdx}
WindSpeeds  == {115 * m : m \in 0..MaxVIdx}

AppIdle ==
    /\ height = 0
    /\ V = 0
    /\ structure_selection = ""
    /\ exposure = ""
    /\ Kd = 0
    /\ Kz = 0
    /\ Kzt = 0
    /\ Ke = 0
    /\ q = <<>>

\* lines 301 - 338 with the widgets' values h, v, s, e
Section5(h, v, s, e) ==
    /\ height' = h
    /\ V' = v
    /\ structure_selection' = s
    /\ exposure' = e
    /\ Kd' = structure_types[s]
    /\ Kz' = get_kz(h, e).ret
    /\ Kzt' = KztDefault
    /\ Ke' = KeDefault
    /\ q' = q_of(Kz', Kzt', Kd', Ke', v)

\* first run, every widget at its default value
AppFirstRun ==
    /\ height = Ft(30)
    /\ V = 1150
    /\ structure_selection = "Main Wind Force Resisting System (Buildings)"
    /\ exposure = exposure_options[2]
    /\ Kd = structure_types[structure_selection]
    /\ Kz = get_kz(height, exposure).ret
    /\ Kzt = KztDefault
    /\ Ke = KeDefault
    /\ q = q_of(Kz, Kzt, Kd, Ke, V)

SetHeight ==
    \E h \in RoofHeights :
        /\ Section5(h, V, structure_selection, exposure)
        /\ UNCHANGED <<kz_vars, ft_vars, icc_vars>>

SetV ==
    \E v \in WindSpeeds :
        /\ Section5(height, v, structure_selection, exposure)
        /\ UNCHANGED <<kz_vars, ft_vars, icc_vars>>

SetStructure ==
    \E s \in DOMAIN structure_types :
        /\ Section5(height, V, s, exposure)
        /\ UNCHANGED <<kz_vars, ft_vars, icc_vars>>

SetExposure ==
    \E k \in 1..Len(exposure_options) :
        /\ Section5(height, V, structure_selection, exposure_options[k])
        /\ UNCHANGED <<kz_vars, ft_vars, icc_vars>>

----------------------------------------------------------------------------
(* Specifications *)

Init == AppFirstRun /\ KzIdle /\ FtIdle /\ IccIdle
Next == SetHeight \/ SetV \/ SetStructure \/ SetExposure
Spec == Init /\ [][Next]_vars

InitKz == KzCalled /\ FtIdle /\ IccIdle /\ AppIdle
NextKz == GetKzCall
SpecKz == InitKz /\ [][NextKz]_vars

InitFtIn == FtCalled /\ KzIdle /\ IccIdle /\ AppIdle
NextFtIn == FtInCall
SpecFtIn == InitFtIn /\ [][NextFtIn]_vars

InitIcc == IccStarted /\ KzIdle /\ FtIdle /\ AppIdle
NextIcc == StateLine \/ OtherLine \/ LoadReturn
SpecIcc == InitIcc /\ [][NextIcc]_vars

----------------------------------------------------------------------------
(* Claims about get_kz, checked under SpecKz *)

KzReturned == kz_pc = "done" /\ kz_ret.raised = ""

\* The breakpoints of a category, read off the table itself.
Breakpoints(e) == DOMAIN table[e]
MinBreak(e) == CHOOSE b \in Breakpoints(e) : \A c \in Breakpoints(e) : b <= c
MaxBreak(e) == CHOOSE b \in Breakpoints(e) : \A c \in Breakpoints(e) : b >= c
Tab(e, b) == table[e][b] * KzDen          \* tabulated value in units of 1/KzScale

\* C1: for a category in {B, C, D}, a height at or below the lowest
\* breakpoint gets the lowest breakpoint's tabulated value and a height at or
\* above the highest breakpoint gets the highest breakpoint's tabulated value.
C1_Clamping ==
    KzReturned =>
        /\ kz_height_ft <= Ft(MinBreak(kz_exposure))
              => kz_ret.ret = Tab(kz_exposure, MinBreak(kz_exposure))
        /\ kz_height_ft >= Ft(MaxBreak(kz_exposure))
              => kz_ret.ret = Tab(kz_exposure, MaxBreak(kz_exposure))

C1_Witness ==
    /\ KzReturned
    /\ kz_height_ft < Ft(MinBreak(kz_exposure))
    /\ kz_ret.ret = Tab(kz_exposure, MinBreak(kz_exposure))

\* C2: at a height that is a tabulated breakpoint of the category, interior
\* ones included, get_kz returns exactly the tabulated value.
C2_BreakpointExact ==
    KzReturned =>
        \A b \in Breakpoints(kz_exposure) :
            kz_height_ft = Ft(b) => kz_ret.ret = Tab(kz_exposure, b)

C2_Witness ==
    /\ KzReturned
    /\ kz_exposure = "D"
    /\ kz_height_ft = Ft(40)
    /\ kz_ret.ret = Tab("D", 40)

\* C3: for a fixed category, get_kz is non-decreasing in height: every height
\* a at or below the height of the call yields a coefficient no larger than
\* the one returned.
KzAt == [e \in DOMAIN table |-> [a \in HeightArgs |-> get_kz(a, e).ret]]

C3_Monotone ==
    KzReturned =>
        \A a \in HeightArgs :
            a <= kz_height_ft => KzAt[kz_exposure][a] <= kz_ret.ret

C3_Witness ==
    /\ KzReturned
    /\ kz_height_ft = Ft(45)
    /\ get_kz(Ft(35), kz_exposure).ret < kz_ret.ret

\* C4: for a height between two consecutive breakpoints (h1, k1), (h2, k2) of
\* the requested category's own table, get_kz returns
\* k1 + (k2 - k1) * (h - h1) / (h2 - h1).
C4_LinearOwnCategory ==
    KzReturned =>
        LET hs == sorted(Breakpoints(kz_exposure))
        IN  \A i \in 1..(Len(hs) - 1) :
              LET w  == Ft(hs[i + 1]) - Ft(hs[i])
                  k1 == table[kz_exposure][hs[i]]
                  k2 == table[kz_exposure][hs[i + 1]]
              IN  (Ft(hs[i]) <= kz_height_ft /\ kz_height_ft <= Ft(hs[i + 1]))
                    => /\ KzDen % w = 0
                       /\ kz_ret.ret
                            = (KzDen \div w)
                                * (k1 * w + (k2 - k1) * (kz_height_ft - Ft(hs[i])))

C4_Witness ==
    /\ KzReturned
    /\ kz_exposure = "B"
    /\ kz_height_ft = Ft(22) + 50
    /\ kz_ret.ret = 64 * KzDen

\* C5: a category that is not B, C or D makes get_kz fail for every height;
\* no coefficient is returned.
C5_UnknownCategoryFails ==
    (kz_pc = "done" /\ kz_exposure \notin {"B", "C", "D"})
        => kz_ret.raised = "KeyError"

C5_Witness ==
    /\ kz_pc = "done"
    /\ kz_exposure = "A"
    /\ kz_ret.raised = "KeyError"

----------------------------------------------------------------------------
(* Claims about the velocity pressure, checked under Spec *)

Psf(hundredths) == BigMul(Big(hundredths), QCent)

\* C6: q scales as the square of V: when only V changes and doubles, q is
\* multiplied by exactly four; and V = 0 gives q = 0.
C6_QuadraticInV ==
    [][ /\ V = 0 => q = Big(0)
        /\ ( /\ V' = 2 * V
             /\ UNCHANGED <<height, structure_selection, exposure>> )
             => q' = BigMulLimb(q, 4) ]_vars

C6_Witness ==
    /\ V = 2 * 575
    /\ q # Big(0)
    /\ q = BigMulLimb(q_of(Kz, Kzt, Kd, Ke, 575), 4)

ScenarioC7 ==
    /\ exposure = "C"
    /\ height = Ft(30)
    /\ V = 1150
    /\ Kd = 85
    /\ Kzt = 100

\* C7 as stated: the scenario Exposure C, h = 30 ft, V = 115 mph, Kd = 0.85,
\* Kzt = 1.0 gives Kh = 0.98, Ke = 1.0 and q = 23.9 psf to one decimal.
C7_Scenario_23_9 ==
    ScenarioC7 =>
        /\ Kz = 98 * KzDen
        /\ Ke = 100
        /\ BigLeq(Psf(2385), q) /\ BigLess(q, Psf(2395))

\* C7 amended: the same scenario gives Kh = 0.98, Ke = 1.0 and q = 28.2 psf
\* to one decimal (28.20 to two).
C7_Scenario_28_2 ==
    ScenarioC7 =>
        /\ Kz = 98 * KzDen
        /\ Ke = 100
        /\ BigLeq(Psf(2815), q) /\ BigLess(q, Psf(2825))
        /\ BigLeq(Psf(2820), q) /\ BigLess(q, Psf(2821))

C7_Witness ==
    /\ ScenarioC7
    /\ structure_selection = "Components and Cladding"
    /\ BigLess(Psf(2820), q)

\* candidate site elevations in feet
SiteElevations == {-100, 0, 1000, 5000}

----------------------------------------------------------------------------
(* Claims about load_icc_table_pdfplumber, checked under SpecIcc *)

\* the state name a line starts with
HasText(line, s) == startswith(line, s) /\ strip(SubSeq(line, Len(s) + 1, Len(line))) # <<>>

\* C9: every value of the State column of the result is one of the 50 state
\* names, and a line that starts with a state name and carries text yields a
\* row keyed by that state name.
C9_StateColumnIsStateName ==
    icc_pc = "done" =>
        /\ \A i \in 1..Len(df) : df[i][1] \in StateNames
        /\ \A j \in 1..Len(lines) : \A s \in StateNames :
               HasText(lines[j], s) => s \in state_list

----------------------------------------------------------------------------
(* Claims about ft_in, checked under SpecFtIn *)

\* C10: for a non-negative value with two decimals, the feet part is the
\* whole number of feet and the inches part lies in 0..11.
C10_InchesBelow12 ==
    ft_pc = "done" =>
        /\ ft_ret.ft = value \div Ft(1)
        /\ ft_ret.inches \in 0..11

====
